---- MODULE Spec2Model ----
(***************************************************************************)
(* Restart continuity of the Main plugin (anjani/plugins/main.py):         *)
(* on_stop saves the session snapshot and a restart marker (document 5 of  *)
(* the SESSION collection); on_start reads the marker, deletes it and      *)
(* reports the downtime.  Every await of the two handlers is one step, and *)
(* every collaborator call may succeed or raise.                           *)
(***************************************************************************)
EXTENDS Integers, FiniteSets, Sequences, TLC

\* ---------------------------------------------------------------- bounds
MaxTime == 2        \* util.time.usec() readings are 0..MaxTime
MaxMsg == 1         \* message ids handed out by the transport are 1..MaxMsg
MaxBlob == 1        \* contents of anjani/anjani.session are 1..MaxBlob
MaxPos == 1         \* positions reported by GetState are 1..MaxPos

\* ------------------------------------------------------------- constants
None == -1          \* Python's None, for the integer fields
LogChat == 7        \* int(config.LOG_CHANNEL) when a log channel is configured
Tasks == {1, 2}     \* executions of a handler that may be in flight

Times == 0..MaxTime
MsgIds == 1..MaxMsg

\* documents of the SESSION collection under _id 5
NoDoc == [present |-> FALSE, time |-> None, status_chat_id |-> None,
          status_message_id |-> None]
MarkerDocs ==
    [present : {TRUE}, time : Times \cup {None}, status_chat_id : {LogChat, None},
     status_message_id : MsgIds \cup {None}]

\* the snapshot document under _id sha256(BOT_TOKEN)
NoSnapshot == [present |-> FALSE, session |-> None, date |-> None, pts |-> None,
               qts |-> None, seq |-> None]

\* updates.State as returned by GetState
GetStateResults == {[date |-> p, pts |-> p, qts |-> p, seq |-> p] : p \in 1..MaxPos}
NoState == [date |-> None, pts |-> None, qts |-> None, seq |-> None]

\* a pyrogram Message, as far as the handlers read it
NoMsg == [chat |-> None, id |-> None]

NoRun == [h |-> "none", end |-> "none", pc |-> "none", time |-> None, clean |-> FALSE]

VARIABLES
    marker,       \* SESSION document _id 5 (NoDoc when there is none)
    snapshot,     \* SESSION document _id sha256(BOT_TOKEN)
    file,         \* anjani/anjani.session: None when missing, else its bytes
    LOG_CHANNEL,  \* config.LOG_CHANNEL: None when unset
    now,          \* util.time.usec()
    handler,      \* per execution: "start", "stop" or "none"
    pc,           \* per execution: the await it is at (or ended at)
    status,       \* per execution: idle, running, returned, raised, killed
    err,          \* per execution: outcome of its last failing call
    restart,      \* on_start's local `restart`
    status_msg,   \* the handlers' local `status_msg`
    data,         \* on_stop's local `data`
    duration,     \* on_start's local `duration`
    set_time,     \* the "time" on_stop passed to update_one
    calls,        \* per execution: collaborator calls it has attempted
    fx,           \* per execution: collaborator calls that completed
    locked,       \* per lock object: is it held
    prev,         \* summary of the execution that ran before the current one
    overlap       \* may two on_stop executions be in flight together

vars == <<marker, snapshot, file, LOG_CHANNEL, now, handler, pc, status, err,
          restart, status_msg, data, duration, set_time, calls, fx, locked,
          prev, overlap>>

store == <<marker, snapshot>>
env == <<file, LOG_CHANNEL, now>>
locals == <<restart, status_msg, data, duration, set_time>>

\* ------------------------------------------------------------ send_to_log
\* send_to_log reaches the transport only when LOG_CHANNEL is set
LogEnabledAlways == TRUE
LogEnabled == LOG_CHANNEL # None

\* ------------------------------------------------------------------ lock
\* `async with asyncio.Lock()`: the lock object is constructed by the call
LockOf(t) == t

InSection(t) == handler[t] = "stop" /\ status[t] = "running"
                /\ pc[t] \in {"t_exists", "t_getstate", "t_snap"}

\* --------------------------------------------------------------- helpers
Running(t) == status[t] = "running"

Goto(t, p) == /\ pc' = [pc EXCEPT ![t] = p]
              /\ UNCHANGED <<status, err>>

Return(t) == /\ status' = [status EXCEPT ![t] = "returned"]
             /\ UNCHANGED <<pc, err>>

Raise(t) == /\ status' = [status EXCEPT ![t] = "raised"]
            /\ err' = [err EXCEPT ![t] = "failed"]
            /\ UNCHANGED pc

Attempt(t, c) == calls' = [calls EXCEPT ![t] = @ \cup {c}]
Complete(t, c) == fx' = [fx EXCEPT ![t] = @ \cup c]

Release(t) == locked' = [locked EXCEPT ![LockOf(t)] = FALSE]

\* what is remembered of an execution once the next one begins
Summary(t) ==
    [h |-> handler[t], end |-> status[t], pc |-> pc[t],
     time |-> IF handler[t] = "stop" /\ "update_marker" \in fx[t]
              THEN set_time[t] ELSE None,
     clean |-> prev.h = "start" /\ prev.end = "returned"]

\* ------------------------------------------------------------------ Init
Init ==
    /\ marker \in {NoDoc} \cup {m \in MarkerDocs : m.time \in {None, 0}}
    /\ snapshot = NoSnapshot
    /\ file \in {None} \cup (1..MaxBlob)
    /\ LOG_CHANNEL \in {None, LogChat}
    /\ now = 0
    /\ handler = [t \in Tasks |-> "none"]
    /\ pc = [t \in Tasks |-> "idle"]
    /\ status = [t \in Tasks |-> "idle"]
    /\ err = [t \in Tasks |-> "none"]
    /\ restart = [t \in Tasks |-> NoDoc]
    /\ status_msg = [t \in Tasks |-> NoMsg]
    /\ data = [t \in Tasks |-> NoState]
    /\ duration = [t \in Tasks |-> 0]
    /\ set_time = [t \in Tasks |-> None]
    /\ calls = [t \in Tasks |-> {}]
    /\ fx = [t \in Tasks |-> {}]
    /\ locked = [t \in Tasks |-> FALSE]
    /\ prev = NoRun
    /\ overlap = FALSE

InitOverlap ==
    /\ marker = NoDoc
    /\ snapshot = NoSnapshot
    /\ file \in {None} \cup (1..MaxBlob)
    /\ LOG_CHANNEL \in {None, LogChat}
    /\ now = 0
    /\ handler = [t \in Tasks |-> "none"]
    /\ pc = [t \in Tasks |-> "idle"]
    /\ status = [t \in Tasks |-> "idle"]
    /\ err = [t \in Tasks |-> "none"]
    /\ restart = [t \in Tasks |-> NoDoc]
    /\ status_msg = [t \in Tasks |-> NoMsg]
    /\ data = [t \in Tasks |-> NoState]
    /\ duration = [t \in Tasks |-> 0]
    /\ set_time = [t \in Tasks |-> None]
    /\ calls = [t \in Tasks |-> {}]
    /\ fx = [t \in Tasks |-> {}]
    /\ locked = [t \in Tasks |-> FALSE]
    /\ prev = NoRun
    /\ overlap = TRUE

\* ----------------------------------------------------------- environment
\* the clock advances
Tick ==
    /\ now < MaxTime
    /\ now' = now + 1
    /\ UNCHANGED <<store, file, LOG_CHANNEL, handler, pc, status, err, locals,
                   calls, fx, locked, prev, overlap>>

\* the framework dispatches the "start" or the "stop" event to the plugin.
\* Executions follow one another; only on_stop executions may overlap, and
\* only when `overlap` is set.
Invoke(t, h) ==
    /\ h \in {"start", "stop"}
    /\ ~Running(t)
    /\ \A u \in Tasks \ {t} :
          Running(u) => overlap /\ h = "stop" /\ handler[u] = "stop"
    /\ t = 2 => Running(1)
    /\ handler' = [handler EXCEPT ![t] = h]
    /\ pc' = [pc EXCEPT ![t] = IF h = "start" THEN "s_find" ELSE "t_lock"]
    /\ status' = [status EXCEPT ![t] = "running"]
    /\ err' = [err EXCEPT ![t] = "none"]
    /\ restart' = [restart EXCEPT ![t] = NoDoc]
    /\ status_msg' = [status_msg EXCEPT ![t] = NoMsg]
    /\ data' = [data EXCEPT ![t] = NoState]
    /\ duration' = [duration EXCEPT ![t] = 0]
    /\ set_time' = [set_time EXCEPT ![t] = None]
    /\ calls' = [calls EXCEPT ![t] = {}]
    /\ fx' = [fx EXCEPT ![t] = {}]
    /\ prev' = IF status[t] = "idle" THEN prev ELSE Summary(t)
    /\ UNCHANGED <<store, env, locked, overlap>>

\* the process is killed: every execution in flight stops where it is
Kill ==
    /\ \E t \in Tasks : Running(t)
    /\ status' = [t \in Tasks |-> IF Running(t) THEN "killed" ELSE status[t]]
    /\ locked' = [t \in Tasks |-> FALSE]
    /\ UNCHANGED <<store, env, handler, pc, err, locals, calls, fx, prev, overlap>>

\* a new process comes up, with the configuration and session file it finds
Reconfigure ==
    /\ \A t \in Tasks : ~Running(t)
    /\ \E t \in Tasks : status[t] # "idle"
    /\ LOG_CHANNEL' \in {None, LogChat}
    /\ file' \in {None} \cup (1..MaxBlob)
    /\ prev' = IF status[1] = "idle" THEN prev ELSE Summary(1)
    /\ handler' = [t \in Tasks |-> "none"]
    /\ pc' = [t \in Tasks |-> "idle"]
    /\ status' = [t \in Tasks |-> "idle"]
    /\ err' = [t \in Tasks |-> "none"]
    /\ restart' = [t \in Tasks |-> NoDoc]
    /\ status_msg' = [t \in Tasks |-> NoMsg]
    /\ data' = [t \in Tasks |-> NoState]
    /\ duration' = [t \in Tasks |-> 0]
    /\ set_time' = [t \in Tasks |-> None]
    /\ calls' = [t \in Tasks |-> {}]
    /\ fx' = [t \in Tasks |-> {}]
    /\ UNCHANGED <<store, now, locked, overlap>>

\* -------------------------------------------------------------- on_start
\* line 58: a marker that lacks one of its three values
Incomplete(doc) ==
    doc.status_chat_id = None \/ doc.status_message_id = None \/ doc.time = None

\* lines 49-79: where on_start goes with the document find_one returned
NextAfterFindUseFirst(doc) ==
    IF ~doc.present THEN "s_hello"
    ELSE IF Incomplete(doc) THEN "s_del" ELSE "s_gather"
NextAfterFind(doc) == IF doc.present THEN "s_del" ELSE "s_hello"

\* line 48: restart = await self.db.find_one({"_id": 5})
OnStartFind(t) ==
    /\ Running(t) /\ handler[t] = "start" /\ pc[t] = "s_find"
    /\ Attempt(t, "find_one")
    /\ \E ok \in BOOLEAN :
          IF ok
          THEN /\ restart' = [restart EXCEPT ![t] = marker]
               /\ Complete(t, {"find_one"})
               /\ Goto(t, NextAfterFind(marker))
          ELSE /\ Raise(t)
               /\ UNCHANGED <<restart, fx>>
    /\ UNCHANGED <<store, env, handler, status_msg, data, duration, set_time,
                   locked, prev, overlap>>

\* what delete_one({"_id": 5}) leaves under _id 5
DeletedKeep(doc) == doc
Deleted(doc) == NoDoc

\* lines 55-59: what on_start, having read rs, leaves under _id 5: the delete
\* comes before the bail-out
AfterReconcileBailFirst(doc, rs) == IF Incomplete(rs) THEN doc ELSE Deleted(doc)
AfterReconcile(doc, rs) == Deleted(doc)

\* lines 55-61: delete the marker, bail out on a missing value, else read the
\* clock for the downtime
OnStartDelete(t) ==
    /\ Running(t) /\ handler[t] = "start" /\ pc[t] = "s_del"
    /\ Attempt(t, "delete_one")
    /\ \E ok \in BOOLEAN :
          IF ok
          THEN /\ marker' = AfterReconcile(marker, restart[t])
               /\ Complete(t, {"delete_one"})
               /\ IF Incomplete(restart[t])
                  THEN Return(t) /\ UNCHANGED duration
                  ELSE /\ Goto(t, "s_gather")
                       /\ duration' = [duration EXCEPT ![t] = now - restart[t].time]
          ELSE /\ Raise(t)
               /\ UNCHANGED <<marker, fx, duration>>
    /\ UNCHANGED <<snapshot, env, handler, restart, status_msg, data, set_time,
                   locked, prev, overlap>>

\* lines 63-68: asyncio.gather(log_stat("downtime"), get_messages(chat, id)).
\* Each of the two may fail; gather raises when either does, and the other
\* still runs.
OnStartGather(t) ==
    /\ Running(t) /\ handler[t] = "start" /\ pc[t] = "s_gather"
    /\ calls' = [calls EXCEPT ![t] = @ \cup {"log_stat", "get_messages"}]
    /\ \E statOk \in BOOLEAN, getOk \in BOOLEAN :
          /\ Complete(t, (IF statOk THEN {"log_stat"} ELSE {})
                         \cup (IF getOk THEN {"get_messages"} ELSE {}))
          /\ IF statOk /\ getOk
             THEN /\ status_msg' = [status_msg EXCEPT ![t] =
                                      [chat |-> restart[t].status_chat_id,
                                       id |-> restart[t].status_message_id]]
                  /\ Goto(t, "s_reply")
             ELSE /\ Raise(t)
                  /\ UNCHANGED status_msg
    /\ UNCHANGED <<store, env, handler, restart, data, duration, set_time,
                   locked, prev, overlap>>

\* lines 71-73: send_to_log("Bot downtime ...", reply_to_message_id=...)
OnStartReply(t) ==
    /\ Running(t) /\ handler[t] = "start" /\ pc[t] = "s_reply"
    /\ IF LogEnabled
       THEN /\ Attempt(t, "send_downtime")
            /\ \E ok \in BOOLEAN :
                  IF ok
                  THEN Complete(t, {"send_downtime"}) /\ Goto(t, "s_msgdel")
                  ELSE Raise(t) /\ UNCHANGED fx
       ELSE /\ Goto(t, "s_msgdel")
            /\ UNCHANGED <<calls, fx>>
    /\ UNCHANGED <<store, env, handler, locals, locked, prev, overlap>>

\* how on_start ends when status_msg.delete() has the outcome o
AfterDeleteRaising(o) == IF o = "ok" THEN "returned" ELSE "raised"
AfterDelete(o) == IF o \in {"ok", "forbidden"} THEN "returned" ELSE "raised"

\* lines 74-77: status_msg.delete(), MessageDeleteForbidden swallowed
OnStartMsgDelete(t) ==
    /\ Running(t) /\ handler[t] = "start" /\ pc[t] = "s_msgdel"
    /\ Attempt(t, "msg_delete")
    /\ \E o \in {"ok", "forbidden", "failed"} :
          /\ status' = [status EXCEPT ![t] = AfterDelete(o)]
          /\ err' = [err EXCEPT ![t] = IF o = "ok" THEN "none" ELSE o]
          /\ fx' = [fx EXCEPT ![t] = IF o = "ok" THEN @ \cup {"msg_delete"} ELSE @]
    /\ UNCHANGED <<store, env, handler, pc, locals, locked, prev, overlap>>

\* line 79: send_to_log("Starting system...")
OnStartHello(t) ==
    /\ Running(t) /\ handler[t] = "start" /\ pc[t] = "s_hello"
    /\ IF LogEnabled
       THEN /\ Attempt(t, "send_starting")
            /\ \E ok \in BOOLEAN :
                  IF ok
                  THEN Complete(t, {"send_starting"}) /\ Return(t)
                  ELSE Raise(t) /\ UNCHANGED fx
       ELSE /\ Return(t)
            /\ UNCHANGED <<calls, fx>>
    /\ UNCHANGED <<store, env, handler, locals, locked, prev, overlap>>

\* --------------------------------------------------------------- on_stop
\* line 82: async with asyncio.Lock()
OnStopAcquire(t) ==
    /\ Running(t) /\ handler[t] = "stop" /\ pc[t] = "t_lock"
    /\ ~locked[LockOf(t)]
    /\ locked' = [locked EXCEPT ![LockOf(t)] = TRUE]
    /\ Goto(t, "t_exists")
    /\ UNCHANGED <<store, env, handler, locals, calls, fx, prev, overlap>>

\* lines 83-85 without the return: a missing file only skips the snapshot
OnStopExistsGoOn(t) ==
    /\ Running(t) /\ handler[t] = "stop" /\ pc[t] = "t_exists"
    /\ Goto(t, IF file # None THEN "t_getstate" ELSE "t_send")
    /\ UNCHANGED <<store, env, handler, locals, calls, fx, locked, prev, overlap>>

\* lines 83-85: return when anjani/anjani.session does not exist
OnStopExists(t) ==
    /\ Running(t) /\ handler[t] = "stop" /\ pc[t] = "t_exists"
    /\ IF file # None
       THEN Goto(t, "t_getstate") /\ UNCHANGED locked
       ELSE Return(t) /\ Release(t)
    /\ UNCHANGED <<store, env, handler, locals, calls, fx, prev, overlap>>

\* line 87 with the failure swallowed: on_stop goes on to the status message
OnStopGetStateGoOn(t) ==
    /\ Running(t) /\ handler[t] = "stop" /\ pc[t] = "t_getstate"
    /\ Attempt(t, "GetState")
    /\ \/ \E d \in GetStateResults :
             /\ data' = [data EXCEPT ![t] = d]
             /\ Complete(t, {"GetState"})
             /\ Goto(t, "t_snap")
       \/ /\ pc' = [pc EXCEPT ![t] = "t_send"]
          /\ err' = [err EXCEPT ![t] = "failed"]
          /\ UNCHANGED <<status, data, fx>>
    /\ UNCHANGED <<store, env, handler, restart, status_msg, duration, set_time,
                   locked, prev, overlap>>

\* line 87: data = await self.bot.client.invoke(GetState())
OnStopGetState(t) ==
    /\ Running(t) /\ handler[t] = "stop" /\ pc[t] = "t_getstate"
    /\ Attempt(t, "GetState")
    /\ \/ \E d \in GetStateResults :
             /\ data' = [data EXCEPT ![t] = d]
             /\ Complete(t, {"GetState"})
             /\ Goto(t, "t_snap")
             /\ UNCHANGED locked
       \/ /\ Raise(t) /\ Release(t)
          /\ UNCHANGED <<data, fx>>
    /\ UNCHANGED <<store, env, handler, restart, status_msg, duration, set_time,
                   prev, overlap>>

\* lines 88-100: update_one({"_id": sha256(BOT_TOKEN)}, {"$set": ...}, upsert=True)
OnStopSnapshot(t) ==
    /\ Running(t) /\ handler[t] = "stop" /\ pc[t] = "t_snap"
    /\ Attempt(t, "update_snapshot")
    /\ \E ok \in BOOLEAN :
          IF ok /\ file # None
          THEN /\ snapshot' = [present |-> TRUE, session |-> file,
                               date |-> data[t].date, pts |-> data[t].pts,
                               qts |-> data[t].qts, seq |-> data[t].seq]
               /\ Complete(t, {"update_snapshot"})
               /\ Goto(t, "t_send")
               /\ UNCHANGED locked
          ELSE /\ Raise(t) /\ Release(t)
               /\ UNCHANGED <<snapshot, fx>>
    /\ UNCHANGED <<marker, env, handler, locals, prev, overlap>>

\* lines 102-105: status_msg = await self.send_to_log("Shutdowning system...");
\* return when there is none
OnStopSend(t) ==
    /\ Running(t) /\ handler[t] = "stop" /\ pc[t] = "t_send"
    /\ IF LogEnabled
       THEN /\ Attempt(t, "send_shutdown")
            /\ \/ \E m \in MsgIds :
                     /\ status_msg' = [status_msg EXCEPT ![t] =
                                         [chat |-> LOG_CHANNEL, id |-> m]]
                     /\ Complete(t, {"send_shutdown"})
                     /\ Goto(t, "t_mark")
                     /\ UNCHANGED locked
               \/ /\ Raise(t) /\ Release(t)
                  /\ UNCHANGED <<status_msg, fx>>
       ELSE /\ Return(t) /\ Release(t)
            /\ UNCHANGED <<status_msg, calls, fx>>
    /\ UNCHANGED <<store, env, handler, restart, data, duration, set_time,
                   prev, overlap>>

\* lines 107-117: update_one({"_id": 5}, {"$set": {...}}, upsert=True)
OnStopMarker(t) ==
    /\ Running(t) /\ handler[t] = "stop" /\ pc[t] = "t_mark"
    /\ Attempt(t, "update_marker")
    /\ \E ok \in BOOLEAN :
          IF ok
          THEN /\ marker' = [present |-> TRUE, time |-> now,
                             status_chat_id |-> status_msg[t].chat,
                             status_message_id |-> status_msg[t].id]
               /\ set_time' = [set_time EXCEPT ![t] = now]
               /\ Complete(t, {"update_marker"})
               /\ Return(t)
          ELSE /\ Raise(t)
               /\ UNCHANGED <<marker, set_time, fx>>
    /\ Release(t)
    /\ UNCHANGED <<snapshot, env, handler, restart, status_msg, data, duration,
                   prev, overlap>>

\* ------------------------------------------------------------------ Next
Next ==
    \/ Tick
    \/ Kill
    \/ Reconfigure
    \/ \E t \in Tasks, h \in {"start", "stop"} : Invoke(t, h)
    \/ \E t \in Tasks : OnStartFind(t)
    \/ \E t \in Tasks : OnStartDelete(t)
    \/ \E t \in Tasks : OnStartGather(t)
    \/ \E t \in Tasks : OnStartReply(t)
    \/ \E t \in Tasks : OnStartMsgDelete(t)
    \/ \E t \in Tasks : OnStartHello(t)
    \/ \E t \in Tasks : OnStopAcquire(t)
    \/ \E t \in Tasks : OnStopExists(t)
    \/ \E t \in Tasks : OnStopGetState(t)
    \/ \E t \in Tasks : OnStopSnapshot(t)
    \/ \E t \in Tasks : OnStopSend(t)
    \/ \E t \in Tasks : OnStopMarker(t)

Spec == Init /\ [][Next]_vars
SpecOverlap == InitOverlap /\ [][Next]_vars

\* ================================================================ claims
Ended(t) == status[t] \in {"returned", "raised"}

\* calls on the log/message transport
SendCalls == {"send_starting", "send_downtime", "send_shutdown"}
TransportCalls == SendCalls \cup {"get_messages", "msg_delete"}
\* calls of on_start that use the marker's fields
UseCalls == {"log_stat", "get_messages", "send_downtime", "msg_delete"}

\* the calls an execution can have attempted when it is at the step p
CallsUpTo(p) ==
    CASE p = "s_find" -> {"find_one"}
      [] p = "s_del" -> {"find_one", "delete_one"}
      [] p = "s_gather" -> {"find_one", "delete_one", "log_stat", "get_messages"}
      [] p = "s_reply" -> {"find_one", "delete_one", "log_stat", "get_messages",
                           "send_downtime"}
      [] p = "s_msgdel" -> {"find_one", "delete_one", "log_stat", "get_messages",
                            "send_downtime", "msg_delete"}
      [] p = "s_hello" -> {"find_one", "send_starting"}
      [] p = "t_getstate" -> {"GetState"}
      [] p = "t_snap" -> {"GetState", "update_snapshot"}
      [] p = "t_send" -> {"GetState", "update_snapshot", "send_shutdown"}
      [] p = "t_mark" -> {"GetState", "update_snapshot", "send_shutdown",
                          "update_marker"}
      [] OTHER -> {}

\* C1: whatever document on_start found under _id 5 (complete, partial or
\* empty), once its delete_one has completed the store holds no document 5.
C1_MarkerGoneAfterReconciliation ==
    \A t \in Tasks :
        handler[t] = "start" /\ restart[t].present /\ "delete_one" \in fx[t]
            => ~marker.present

\* C1 witness: on_start found a marker without its time, bailed out, and the
\* store holds no marker
C1_Witness ==
    /\ handler[1] = "start" /\ status[1] = "returned" /\ pc[1] = "s_del"
    /\ restart[1].present /\ restart[1].time = None
    /\ restart[1].status_chat_id # None
    /\ ~marker.present

C3_SecondStartNoSideEffect ==
    \A t \in Tasks :
        /\ handler[t] = "start" /\ "find_one" \in fx[t]
        /\ prev.h = "start" /\ prev.end = "returned"
        => /\ ~restart[t].present
           /\ calls[t] \subseteq {"find_one"}

\* C3 amended: an on_start that follows an on_start finds no marker and
\* performs no store write, metric, fetch or message delete; it does post
\* "Starting system..." when LOG_CHANNEL is set.
C3_SecondStartOnlyGreets ==
    \A t \in Tasks :
        /\ handler[t] = "start" /\ "find_one" \in fx[t]
        /\ prev.h = "start" /\ prev.end = "returned"
        => /\ ~restart[t].present
           /\ pc[t] = "s_hello"
           /\ calls[t] \subseteq {"find_one", "send_starting"}
           /\ Ended(t) => (LogEnabled <=> "send_starting" \in calls[t])

\* C3 witness: the first on_start consumed a complete marker, the second has
\* returned having posted "Starting system..."
C3_Witness ==
    /\ prev.h = "start" /\ prev.end = "returned" /\ prev.pc = "s_msgdel"
    /\ handler[1] = "start" /\ status[1] = "returned"
    /\ "send_starting" \in fx[1]

\* C4 as claimed: when GetState fails the snapshot upsert is skipped, the
\* status message is still posted and, if posted, the marker is written.
C4_GetStateFailureStillPosts ==
    \A t \in Tasks :
        /\ handler[t] = "stop" /\ "GetState" \in calls[t] \ fx[t]
        /\ Ended(t)
        => /\ "update_snapshot" \notin calls[t]
           /\ LogEnabled => "send_shutdown" \in calls[t]
           /\ "send_shutdown" \in fx[t] => "update_marker" \in fx[t]

\* C4 amended: when GetState fails on_stop ends there with the error raised:
\* the snapshot upsert, the status message and the marker write are all
\* skipped, and the lock is released.
C4_GetStateFailureEndsOnStop ==
    \A t \in Tasks :
        handler[t] = "stop" /\ "GetState" \in calls[t] \ fx[t]
            => /\ status[t] = "raised" /\ pc[t] = "t_getstate"
               /\ calls[t] = {"GetState"}
               /\ ~locked[LockOf(t)]

\* C4 witness: GetState failed with a log channel configured and a session
\* file present
C4_Witness ==
    /\ handler[1] = "stop" /\ status[1] = "raised" /\ pc[1] = "t_getstate"
    /\ LogEnabled /\ file # None

\* C5: an execution of on_stop attempts the marker write only after its own
\* snapshot upsert has completed, wherever it is stopped.
C5_MarkerOnlyAfterSnapshot ==
    \A t \in Tasks :
        handler[t] = "stop" /\ "update_marker" \in calls[t]
            => "update_snapshot" \in fx[t] /\ snapshot.present

\* C5 witness: an on_stop has written its marker
C5_Witness ==
    /\ handler[1] = "stop" /\ status[1] = "returned" /\ "update_marker" \in fx[1]
    /\ marker.present /\ marker.time = set_time[1]

\* C6: once on_start has attempted a call that uses the marker's fields the
\* store holds no marker, and the on_start that follows an on_start which got
\* that far, however it ended, finds no marker.
C6_DeletedBeforeUse ==
    /\ \A t \in Tasks :
          handler[t] = "start" /\ calls[t] \cap UseCalls # {} => ~marker.present
    /\ \A t \in Tasks :
          /\ handler[t] = "start" /\ "find_one" \in fx[t]
          /\ prev.h = "start" /\ prev.pc \in {"s_gather", "s_reply", "s_msgdel"}
          => ~restart[t].present

\* C6 witness: an on_start failed in the gather of log_stat and get_messages,
\* and the on_start after it has read the store
C6_Witness ==
    /\ prev.h = "start" /\ prev.end = "raised" /\ prev.pc = "s_gather"
    /\ handler[1] = "start" /\ "find_one" \in fx[1]

\* C7 as claimed: with LOG_CHANNEL unset on_stop writes no marker and on_start
\* attempts no call on the log/message transport.
C7_UnsetChannelNoTransportCall ==
    LOG_CHANNEL = None =>
        \A t \in Tasks :
            /\ handler[t] = "stop" => "update_marker" \notin calls[t]
            /\ handler[t] = "start" => calls[t] \cap TransportCalls = {}

\* C7 amended: with LOG_CHANNEL unset on_stop writes no marker and neither
\* handler sends a message; on_start still fetches and deletes the status
\* message of a complete marker it finds.
C7_UnsetChannelNoSend ==
    LOG_CHANNEL = None =>
        \A t \in Tasks :
            /\ "update_marker" \notin calls[t]
            /\ calls[t] \cap SendCalls = {}
            /\ handler[t] = "stop" /\ Ended(t) /\ pc[t] = "t_send"
                   => status[t] = "returned"

\* C7 witness: with LOG_CHANNEL unset an on_stop returned at the status
\* message and the on_start after it consumed a complete marker
C7_Witness ==
    /\ LOG_CHANNEL = None
    /\ prev.h = "stop" /\ prev.end = "returned" /\ prev.pc = "t_send"
    /\ handler[1] = "start" /\ status[1] = "returned" /\ "msg_delete" \in fx[1]

\* C8 as claimed: whichever collaborator call fails, no error leaves on_start
\* or on_stop.
C8_NoErrorEscapes ==
    \A t \in Tasks : status[t] # "raised"

\* C8 amended: the only failure the handlers absorb is MessageDeleteForbidden
\* from status_msg.delete(), after which on_start returns; any other failing
\* call ends the handler at that call with the error raised, no later step
\* runs, and on_stop's lock is released.
C8_OnlyForbiddenIsAbsorbed ==
    \A t \in Tasks :
        /\ err[t] = "forbidden" => status[t] = "returned" /\ pc[t] = "s_msgdel"
        /\ err[t] = "failed" <=> status[t] = "raised"
        /\ status[t] = "raised" =>
              /\ calls[t] \subseteq CallsUpTo(pc[t])
              /\ calls[t] \ fx[t] # {}
              /\ handler[t] = "stop" => ~locked[LockOf(t)]

\* C8 witness: the delete of the status message was forbidden and on_start
\* returned
C8_Witness ==
    /\ handler[1] = "start" /\ err[1] = "forbidden" /\ status[1] = "returned"

\* C9 as claimed: at most one on_stop is inside "check the session file,
\* query the transport, upsert the snapshot", and an on_stop that has left
\* holds no lock.
C9_LockExclusive ==
    /\ Cardinality({t \in Tasks : InSection(t)}) <= 1
    /\ \A t \in Tasks : handler[t] = "stop" /\ ~Running(t) => ~locked[LockOf(t)]

\* C10: in a run of on_start, on_stop, on_start where the first two returned,
\* the last on_start finds a marker exactly when that on_stop wrote one, and
\* the time it reads from it is the time that on_stop recorded.
C10_MarkerFromPrecedingStop ==
    \A t \in Tasks :
        /\ handler[t] = "start" /\ "find_one" \in fx[t]
        /\ prev.h = "stop" /\ prev.end = "returned" /\ prev.clean
        => /\ restart[t].present <=> prev.time # None
           /\ restart[t].present =>
                 /\ restart[t].time = prev.time
                 /\ ~Incomplete(restart[t])
                 /\ "delete_one" \in fx[t] => duration[t] + prev.time \in Times

\* C10 witness: the second cycle's on_start consumed the marker its on_stop
\* wrote after the clock had advanced
C10_Witness ==
    /\ prev.h = "stop" /\ prev.end = "returned" /\ prev.clean /\ prev.time > 0
    /\ handler[1] = "start" /\ status[1] = "returned" /\ "msg_delete" \in fx[1]
    /\ restart[1].time = prev.time

====
